---- MODULE Spec2Model ----
(***************************************************************************)
(* EndfieldAdapter (src/games/endfield_adapter.py): the credential chain   *)
(* (OAuth grant -> cred -> sign token -> player binding), the signed       *)
(* attendance check and claim, and the decision logic of perform_checkin.  *)
(*                                                                         *)
(* A Python value is a record of one field named by its type; a Python     *)
(* str is a sequence of one-character strings, so that startswith, len,    *)
(* lower, the substring test and the f-strings are computed, not assumed.  *)
(* A JSON object is a record of its keys; a key the object does not carry  *)
(* holds Absent, a key carrying JSON null holds PyNone.                    *)
(***************************************************************************)
EXTENDS Integers, Sequences, FiniteSets, TLC

\* ------------------------------------------------------------ bounds
\* longest attendance calendar an upstream check response carries
MaxCalendar == 2
\* longest awardIds list an upstream claim response carries
MaxAwards == 2
\* the clock (whole seconds) runs from 0 to MaxClock
MaxClock == 1

\* ------------------------------------------------------------ Python values
PyNone == [none |-> TRUE]
Absent == [absent |-> TRUE]
PyInt(n) == [int |-> n]
PyStr(s) == [str |-> s]
PyBool(b) == [bool |-> b]
PyList(l) == [list |-> l]
PyDict(d) == [dict |-> d]

\* type(x)
IsNone(x) == DOMAIN x = {"none"}
IsInt(x) == DOMAIN x = {"int"}
IsStr(x) == DOMAIN x = {"str"}
IsBool(x) == DOMAIN x = {"bool"}
IsList(x) == DOMAIN x = {"list"}
IsDict(x) == DOMAIN x = {"dict"}

\* bool(x)
Truthy(x) ==
  CASE IsNone(x) -> FALSE
    [] IsInt(x) -> x.int # 0
    [] IsStr(x) -> Len(x.str) > 0
    [] IsBool(x) -> x.bool
    [] IsList(x) -> Len(x.list) > 0
    [] IsDict(x) -> \E k \in DOMAIN x.dict : x.dict[k] # Absent

\* d.get(key, default), given d[key] (Absent when d does not carry the key)
Get(field, default) == IF field = Absent THEN default ELSE field

\* ------------------------------------------------------------ strings
LowerChar(c) ==
  CASE c = "A" -> "a" [] c = "B" -> "b" [] c = "C" -> "c" [] c = "D" -> "d"
    [] c = "E" -> "e" [] c = "F" -> "f" [] c = "G" -> "g" [] c = "H" -> "h"
    [] c = "I" -> "i" [] c = "J" -> "j" [] c = "K" -> "k" [] c = "L" -> "l"
    [] c = "M" -> "m" [] c = "N" -> "n" [] c = "O" -> "o" [] c = "P" -> "p"
    [] c = "Q" -> "q" [] c = "R" -> "r" [] c = "S" -> "s" [] c = "T" -> "t"
    [] c = "U" -> "u" [] c = "V" -> "v" [] c = "W" -> "w" [] c = "X" -> "x"
    [] c = "Y" -> "y" [] c = "Z" -> "z" [] OTHER -> c

\* str.lower()
Lower(s) == [i \in 1..Len(s) |-> LowerChar(s[i])]

\* sub in s
Contains(s, sub) ==
  \E i \in 0..(Len(s) - Len(sub)) : SubSeq(s, i + 1, i + Len(sub)) = sub

\* s.startswith(p)
StartsWith(s, p) == Len(s) >= Len(p) /\ SubSeq(s, 1, Len(p)) = p

Digit(d) == <<<<"0","1","2","3","4","5","6","7","8","9">>[d + 1]>>

RECURSIVE NatToStr(_)
NatToStr(n) == IF n < 10 THEN Digit(n) ELSE NatToStr(n \div 10) \o Digit(n % 10)

\* str(n) of an int
IntToStr(n) == IF n < 0 THEN <<"-">> \o NatToStr(0 - n) ELSE NatToStr(n)

\* f"{x}" of a str, an int or None
Fmt(x) ==
  CASE IsStr(x) -> x.str
    [] IsInt(x) -> IntToStr(x.int)
    [] IsNone(x) -> <<"N","o","n","e">>

\* sep.join(parts)
RECURSIVE Join(_, _)
Join(sep, parts) ==
  IF Len(parts) = 0 THEN <<>>
  ELSE IF Len(parts) = 1 THEN parts[1]
  ELSE parts[1] \o sep \o Join(sep, Tail(parts))

\* all sequences over S of length 0..n
SeqsUpTo(S, n) == UNION {[1..k -> S] : k \in 0..n}

\* ------------------------------------------------------------ program constants
\* PLATFORM, VNAME, ENDFIELD_GAME_ID
PLATFORM == <<"3">>
VNAME == <<"1",".","0",".","0">>
ENDFIELD_GAME_ID == <<"3">>
\* a token of at least this length is an ACCOUNT_TOKEN, not a cred
CredLenLimit == 100
\* the prefix of an encoded ACCOUNT_TOKEN
JwtPrefix == <<"e","y","J">>
\* upstream codes the decision logic tells apart
CodeOk == 0
CodeAlreadyA == 1001
CodeAlreadyB == 10001
CodeExpired == 10002
\* "code" of the payload check_attendance / claim_attendance make up on an exception
CodeLocalError == -1

\* ------------------------------------------------------------ upstream responses
\* What session.get/post(...).json() does: raises (transport error, body that is
\* not JSON) with the exception text, or returns the decoded JSON object.
HttpError(text) == [error |-> text]
Json(obj) == [json |-> obj]
IsError(resp) == DOMAIN resp = {"error"}

\* exception texts, one of them with the word "already" in it
ErrTexts == {<<"t","i","m","e","d"," ","o","u","t">>, <<"C","o","n","n","e","c","t","i","o","n"," ","a","l","r","e","a","d","y"," ","c","l","o","s","e","d">>}
HttpErrors == {HttpError(e) : e \in ErrTexts}

\* the RawTokens an adapter is constructed with: empty, 99 characters, 100
\* characters, and a short one with the encoded-token prefix
TokEmpty == <<>>
TokShort == [i \in 1..(CredLenLimit - 1) |-> "c"]
TokLong == [i \in 1..CredLenLimit |-> "c"]
TokJwt == <<"e","y","J","h","b","G","c","i">>
Tokens == {TokEmpty, TokShort, TokLong, TokJwt}

\* account labels
AccountNames == {<<"U","n","k","n","o","w","n">>}

\* one field that yields a string: absent, null, empty or a value
StrField(val) == {Absent, PyNone, PyStr(<<>>), PyStr(val)}
StatusField == {Absent, PyNone, PyInt(CodeOk), PyInt(1)}

\* OAuth grant: {status, data: {code}, msg}
OAuthResponses ==
  HttpErrors \cup
  {Json([status |-> s, data |-> d, msg |-> Absent]) :
     s \in StatusField,
     d \in {Absent, PyNone} \cup {PyDict([code |-> c]) : c \in StrField(<<"o","c","1">>)}}

\* code-to-cred exchange: {code, data: {cred}, message}
CredResponses ==
  HttpErrors \cup
  {Json([code |-> s, data |-> d, message |-> Absent]) :
     s \in StatusField,
     d \in {Absent, PyNone} \cup {PyDict([cred |-> c]) : c \in StrField(<<"c","r","1">>)}}

\* token refresh: {code, data: {token}, message}
RefreshResponses ==
  HttpErrors \cup
  {Json([code |-> s, data |-> d, message |-> Absent]) :
     s \in StatusField,
     d \in {Absent, PyNone} \cup {PyDict([token |-> c]) : c \in StrField(<<"s","t","1">>)}}

\* player binding: {code, data: {list: [{appCode, bindingList: [{defaultRole, roles}]}]}}
Role1 == PyDict([roleId |-> PyStr(<<"r","1">>), serverId |-> PyStr(<<"s","1">>)])
Role2 == PyDict([roleId |-> PyStr(<<"r","2">>), serverId |-> Absent])
RoleEmpty == PyDict([roleId |-> Absent, serverId |-> Absent])
Bindings ==
  {PyDict([defaultRole |-> dr, roles |-> rs]) :
     dr \in {Absent, PyNone, Role1, RoleEmpty},
     rs \in {Absent, PyNone, PyList(<<>>), PyList(<<Role2>>), PyList(<<RoleEmpty, Role2>>)}}
BindingNoRole == PyDict([defaultRole |-> Absent, roles |-> Absent])
BindingDefault1 == PyDict([defaultRole |-> Role1, roles |-> Absent])
BindingLists ==
  {Absent, PyNone, PyList(<<>>), PyList(<<BindingNoRole, BindingDefault1>>)}
    \cup {PyList(<<b>>) : b \in Bindings}
AppCodes == {Absent, PyStr(<<"e","n","d","f","i","e","l","d">>), PyStr(<<"a","r","k","n","i","g","h","t","s">>)}
Apps == {PyDict([appCode |-> a, bindingList |-> bl]) : a \in AppCodes, bl \in BindingLists}
FirstApps ==
  {PyDict([appCode |-> PyStr(<<"a","r","k","n","i","g","h","t","s">>), bindingList |-> PyList(<<BindingDefault1>>)]),
   PyDict([appCode |-> PyStr(<<"e","n","d","f","i","e","l","d">>), bindingList |-> PyList(<<>>)]),
   PyDict([appCode |-> PyStr(<<"e","n","d","f","i","e","l","d">>), bindingList |-> PyList(<<BindingNoRole>>)])}
AppLists ==
  {Absent, PyNone, PyList(<<>>)}
    \cup {PyList(<<a>>) : a \in Apps}
    \cup {PyList(<<a, b>>) : a \in FirstApps, b \in Apps}
BindingResponses ==
  HttpErrors \cup
  {Json([code |-> s, data |-> d]) : s \in {PyInt(1)}, d \in {Absent}} \cup
  {Json([code |-> s, data |-> d]) :
     s \in {PyInt(CodeOk)},
     d \in {Absent, PyNone} \cup {PyDict([list |-> l]) : l \in AppLists}}

\* attendance check: {code, message, data: {hasToday, calendar, resourceInfoMap}}
A1 == <<"a","1">>
A2 == <<"a","2">>
AwardIds == {A1, A2}
ResOrundum == PyDict([name |-> PyStr(<<"O","r","u","n","d","u","m">>), count |-> PyInt(100), icon |-> PyStr(<<"o",".","p","n","g">>)])
ResBare == PyDict([name |-> Absent, count |-> Absent, icon |-> Absent])
\* {} as a resourceInfoMap
EmptyMap == PyDict([a \in AwardIds |-> Absent])
ResourceMaps ==
  {Absent, PyNone} \cup
  {PyDict(m) : m \in {f \in [AwardIds -> {Absent, PyNone, ResOrundum, ResBare}] :
                         /\ f[A1] \in {Absent, PyNone, ResOrundum}
                         /\ f[A2] \in {Absent, ResBare}}}
ClaimResourceMaps ==
  {Absent, PyNone} \cup
  {PyDict(m) : m \in {f \in [AwardIds -> {Absent, PyNone, ResOrundum, ResBare}] :
                         /\ f[A1] \in {Absent, ResOrundum}
                         /\ f[A2] \in {Absent, ResBare}}}
    \cup {PyDict([a \in AwardIds |-> IF a = A1 THEN PyNone ELSE ResBare])}
\* calendar entries; an entry without a done flag is taken without an award id
DayRecords ==
  {[done |-> d, awardId |-> a] :
     d \in {PyBool(TRUE), PyBool(FALSE)},
     a \in {Absent, PyStr(A1), PyStr(A2)}} \cup {[done |-> Absent, awardId |-> Absent]}
\* entries with the done flag alone, for the responses that lead on to the claim
DayFlags == {r \in DayRecords : r.awardId = Absent /\ r.done # Absent}
Calendars == {Absent, PyNone} \cup {PyList(l) : l \in SeqsUpTo(DayRecords, MaxCalendar)}
\* the days signed come first
FlagCalendars ==
  {Absent, PyNone} \cup
  {PyList(l) : l \in {c \in SeqsUpTo(DayFlags, MaxCalendar) :
                        \A i, j \in DOMAIN c : (i < j /\ c[j].done = PyBool(TRUE)) => c[i].done = PyBool(TRUE)}}
CheckResponses ==
  HttpErrors \cup
  {Json([code |-> c, message |-> m, data |-> Absent]) :
     c \in {Absent, PyNone, PyInt(500)},
     m \in {Absent, PyNone, PyStr(<<"S","e","r","v","e","r"," ","e","r","r","o","r">>)}} \cup
  {Json([code |-> PyInt(CodeOk), message |-> Absent, data |-> d]) :
     d \in {Absent, PyNone}
       \cup {PyDict([hasToday |-> PyBool(TRUE), calendar |-> cal, resourceInfoMap |-> rm]) :
               cal \in Calendars,
               rm \in {Absent, PyDict([a \in AwardIds |-> IF a = A1 THEN ResOrundum ELSE ResBare]),
                       PyDict([a \in AwardIds |-> IF a = A1 THEN ResOrundum ELSE Absent])}}
       \cup {PyDict([hasToday |-> PyBool(TRUE), calendar |-> cal, resourceInfoMap |-> rm]) :
               cal \in {c \in Calendars : IsList(c) => Len(c.list) <= 1}, rm \in ResourceMaps}
       \cup {PyDict([hasToday |-> PyBool(FALSE), calendar |-> cal, resourceInfoMap |-> Absent]) :
               cal \in FlagCalendars}
       \cup {PyDict([hasToday |-> h, calendar |-> Absent, resourceInfoMap |-> Absent]) :
               h \in {Absent, PyNone}}}

\* attendance claim: {code, message, data: {awardIds, resourceInfoMap}}
AwardItems == {PyStr(A1), PyDict([id |-> PyStr(A2)]), PyDict([id |-> Absent])}
AwardLists == {Absent, PyNone} \cup {PyList(l) : l \in SeqsUpTo(AwardItems, MaxAwards)}
ClaimMessages == {Absent, PyNone, PyStr(<<"f","a","i","l">>), PyStr(<<"A","l","r","e","a","d","y"," ","c","l","a","i","m","e","d">>)}
ClaimResponses ==
  HttpErrors \cup
  {Json([code |-> c, message |-> m, data |-> Absent]) :
     c \in {Absent, PyNone, PyInt(CodeAlreadyA), PyInt(CodeAlreadyB), PyInt(CodeExpired), PyInt(500)},
     m \in ClaimMessages} \cup
  {Json([code |-> PyInt(CodeOk), message |-> PyStr(<<"A","l","r","e","a","d","y"," ","c","l","a","i","m","e","d">>), data |-> Absent])} \cup
  {Json([code |-> PyInt(CodeOk), message |-> Absent, data |-> d]) :
     d \in {Absent, PyNone}
       \cup {PyDict([awardIds |-> ids, resourceInfoMap |-> rm]) :
               ids \in AwardLists,
               rm \in {Absent, PyDict([a \in AwardIds |-> IF a = A1 THEN ResOrundum ELSE ResBare])}}
       \cup {PyDict([awardIds |-> ids, resourceInfoMap |-> rm]) :
               ids \in {l \in AwardLists : IsList(l) => Len(l.list) <= 1}, rm \in ClaimResourceMaps}}

\* ------------------------------------------------------------ exceptions
\* A helper either yields a value or raises; str(e) is the text carried.
Value(x) == [value |-> x]
Raise(text) == [raise |-> text]
IsRaise(r) == DOMAIN r = {"raise"}
ExcNoneGet == <<"'","N","o","n","e","T","y","p","e","'"," ","o","b","j","e","c","t"," ","h","a","s"," ","n","o"," ","a","t","t","r","i","b","u","t","e"," ","'","g","e","t","'">>
ExcNoneIter == <<"'","N","o","n","e","T","y","p","e","'"," ","o","b","j","e","c","t"," ","i","s"," ","n","o","t"," ","i","t","e","r","a","b","l","e">>
ExcNoneIn == <<"a","r","g","u","m","e","n","t"," ","o","f"," ","t","y","p","e"," ","'","N","o","n","e","T","y","p","e","'"," ","i","s"," ","n","o","t"," ","i","t","e","r","a","b","l","e">>
ExcNoneLower == <<"'","N","o","n","e","T","y","p","e","'"," ","o","b","j","e","c","t"," ","h","a","s"," ","n","o"," ","a","t","t","r","i","b","u","t","e"," ","'","l","o","w","e","r","'">>
ExcNoneEncode == <<"'","N","o","n","e","T","y","p","e","'"," ","o","b","j","e","c","t"," ","h","a","s"," ","n","o"," ","a","t","t","r","i","b","u","t","e"," ","'","e","n","c","o","d","e","'">>

\* ------------------------------------------------------------ the credential hops
\* _get_oauth_code: the code of a response with status 0 and a truthy data.code,
\* None otherwise (also when the request or the parsing raised)
get_oauth_code(resp) ==
  IF IsError(resp) THEN PyNone
  ELSE LET data == resp.json IN
    IF Get(data.status, PyNone) # PyInt(CodeOk) THEN PyNone
    ELSE IF data.data = Absent THEN PyNone
    ELSE IF data.data = PyNone THEN PyNone
    ELSE IF Truthy(Get(data.data.dict.code, PyNone)) THEN data.data.dict.code
    ELSE PyNone

\* _get_cred
get_cred(resp) ==
  IF IsError(resp) THEN PyNone
  ELSE LET data == resp.json IN
    IF Get(data.code, PyNone) # PyInt(CodeOk) THEN PyNone
    ELSE IF data.data = Absent THEN PyNone
    ELSE IF data.data = PyNone THEN PyNone
    ELSE IF Truthy(Get(data.data.dict.cred, PyNone)) THEN data.data.dict.cred
    ELSE PyNone

\* _get_sign_token that does not look at the response's code
get_sign_token_IgnoresCode(resp) ==
  IF IsError(resp) THEN PyNone
  ELSE IF resp.json.data \in {Absent, PyNone} THEN PyNone
  ELSE IF Truthy(Get(resp.json.data.dict.token, PyNone)) THEN resp.json.data.dict.token
  ELSE PyNone
\* _get_sign_token
get_sign_token(resp) ==
  IF IsError(resp) THEN PyNone
  ELSE LET data == resp.json IN
    IF Get(data.code, PyNone) # PyInt(CodeOk) THEN PyNone
    ELSE IF data.data = Absent THEN PyNone
    ELSE IF data.data = PyNone THEN PyNone
    ELSE IF Truthy(Get(data.data.dict.token, PyNone)) THEN data.data.dict.token
    ELSE PyNone

\* line 205: binding.get("defaultRole") or (binding.get("roles", [{}])[0] if binding.get("roles") else None)
RoleOfBinding(binding) ==
  IF Truthy(Get(binding.dict.defaultRole, PyNone)) THEN binding.dict.defaultRole
  ELSE IF Truthy(Get(binding.dict.roles, PyNone)) THEN binding.dict.roles.list[1]
  ELSE PyNone

\* line 209: f"{self.ENDFIELD_GAME_ID}_{role_id}_{server_id}"
GameRoleOf(role) ==
  PyStr(ENDFIELD_GAME_ID \o <<"_">> \o Fmt(Get(role.dict.roleId, PyNone))
          \o <<"_">> \o Fmt(Get(role.dict.serverId, PyNone)))

\* lines 202-211: the role of the first endfield app whose first binding has one
RECURSIVE RoleFromApps(_, _)
RoleFromApps(apps, i) ==
  IF i > Len(apps) THEN PyNone
  ELSE LET app == apps[i] IN
    IF /\ Get(app.dict.appCode, PyNone) = PyStr(<<"e","n","d","f","i","e","l","d">>)
       /\ Truthy(Get(app.dict.bindingList, PyNone))
       /\ Truthy(RoleOfBinding(app.dict.bindingList.list[1]))
    THEN GameRoleOf(RoleOfBinding(app.dict.bindingList.list[1]))
    ELSE RoleFromApps(apps, i + 1)

\* _get_player_binding, given the response: the game role or None
get_player_binding(resp) ==
  IF IsError(resp) THEN PyNone
  ELSE LET data == resp.json IN
    IF Get(data.code, PyNone) # PyInt(CodeOk) THEN PyNone
    ELSE IF data.data = Absent THEN PyNone
    ELSE IF data.data = PyNone THEN PyNone
    ELSE IF ~Truthy(Get(data.data.dict.list, PyNone)) THEN PyNone
    ELSE RoleFromApps(data.data.dict.list.list, 1)

\* ------------------------------------------------------------ the signature
\* json.dumps(header_obj, separators=(',', ':')) of lines 235-243
HeadersJson(timestamp) ==
  <<"{","\"","p","l","a","t","f","o","r","m","\"",":","\"">> \o PLATFORM \o <<"\"",",","\"","t","i","m","e","s","t","a","m","p","\"",":","\"">> \o timestamp
    \o <<"\"",",","\"","d","I","d","\"",":","\"","\"",",","\"","v","N","a","m","e","\"",":","\"">> \o VNAME \o <<"\"","}">>

\* a signing input that leaves the body out
SignString_NoBody(path, body, timestamp) == path \o timestamp \o HeadersJson(timestamp)

\* line 246: f"{path}{body}{timestamp}{headers_json}"
SignString(path, body, timestamp) == path \o body \o timestamp \o HeadersJson(timestamp)

\* hmac.new(key, msg, sha256).hexdigest() and md5(text).hexdigest(): the digests
\* are taken as collision-free, a digest stands for what was hashed
HmacSha256Hex(key, msg) == [hmac_sha256_key |-> key, hmac_sha256_msg |-> msg]
Md5Hex(text) == [md5 |-> text]

\* _compute_sign with self.sign_token = key: raises when the key is None
compute_sign(key, path, body, timestamp) ==
  IF key = PyNone THEN Raise(ExcNoneEncode)
  ELSE Value(Md5Hex(HmacSha256Hex(key.str, SignString(path, body, timestamp))))

BindingPath == <<"/","a","p","i","/","v","1","/","g","a","m","e","/","p","l","a","y","e","r","/","b","i","n","d","i","n","g">>
AttendancePath == <<"/","w","e","b","/","v","1","/","g","a","m","e","/","e","n","d","f","i","e","l","d","/","a","t","t","e","n","d","a","n","c","e">>

\* a timestamp read once and kept for every later call
Timestamp_Frozen(clock) == <<"0">>
\* str(int(time.time()))
Timestamp(clock) == IntToStr(clock)

\* ------------------------------------------------------------ the outcome
Outcome(s, m, a, r, n) ==
  [success |-> s, message |-> m, already_signed |-> a, reward |-> r, total_sign_day |-> n]

MsgAuthFailed == <<"A","u","t","h","e","n","t","i","c","a","t","i","o","n"," ","f","a","i","l","e","d">>
MsgCheckFailed == <<"F","a","i","l","e","d"," ","t","o"," ","c","h","e","c","k"," ","a","t","t","e","n","d","a","n","c","e">>
MsgAlready == <<"A","l","r","e","a","d","y"," ","s","i","g","n","e","d"," ","i","n"," ","t","o","d","a","y">>
MsgSigned == <<"S","i","g","n","e","d"," ","i","n"," ","s","u","c","c","e","s","s","f","u","l","l","y","!"," ","R","e","w","a","r","d","s",":"," ">>
MsgExpired == <<"A","c","c","o","u","n","t"," ","t","o","k","e","n"," ","e","x","p","i","r","e","d","."," ","P","l","e","a","s","e"," ","u","p","d","a","t","e"," ","y","o","u","r"," ","t","o","k","e","n",".">>
MsgUnknown == <<"U","n","k","n","o","w","n">>

\* lines 396-402
AuthFailedOutcome == Outcome(FALSE, PyStr(MsgAuthFailed), FALSE, PyNone, 0)

\* lines 513-521 returning only success and message
ExceptionOutcome_Bare(text) == [success |-> FALSE, message |-> PyStr(text)]
\* lines 513-521: the except branch of perform_checkin
ExceptionOutcome(text) == Outcome(FALSE, PyStr(text), FALSE, PyNone, 0)

\* lines 431-435 and 464-468: the reward built from a resource
RewardOf(resource) ==
  PyDict([name |-> Get(resource.dict.name, PyStr(MsgUnknown)),
          count |-> Get(resource.dict.count, PyInt(0)),
          icon |-> Get(resource.dict.icon, PyStr(<<>>))])

\* c.get("done", False) is truthy
IsDone(record) == Truthy(Get(record.done, PyBool(FALSE)))

\* line 421: len([c for c in calendar if c.get("done", False)])
TotalSigned(calendar) == Len(SelectSeq(calendar, IsDone))

\* lines 425-435: the loop over the calendar, from entry i on
RECURSIVE LastReward(_, _, _, _)
LastReward(calendar, resource_map, i, last_reward) ==
  IF i > Len(calendar) THEN Value(last_reward)
  ELSE LET record == calendar[i]
           award_id == Get(record.awardId, PyNone)
       IN IF ~Truthy(Get(record.done, PyNone)) \/ ~Truthy(award_id)
          THEN LastReward(calendar, resource_map, i + 1, last_reward)
          ELSE IF resource_map = PyNone THEN Raise(ExcNoneIn)
          ELSE IF resource_map.dict[award_id.str] = Absent
          THEN LastReward(calendar, resource_map, i + 1, last_reward)
          ELSE IF resource_map.dict[award_id.str] = PyNone THEN Raise(ExcNoneGet)
          ELSE LastReward(calendar, resource_map, i + 1, RewardOf(resource_map.dict[award_id.str]))

\* lines 423-443: the outcome when has_today is truthy
AlreadyTodayOutcome(calendar, resource_map) ==
  LET last == LastReward(calendar, resource_map, 1, PyNone) IN
    IF IsRaise(last) THEN last
    ELSE Value(Outcome(TRUE, PyStr(MsgAlready), TRUE, last.value, TotalSigned(calendar)))

\* lines 408-414 with the default text in place of the upstream message
CheckFailedOutcome_DropsMessage(check_data) ==
  Outcome(FALSE, PyStr(MsgCheckFailed), FALSE, PyNone, 0)
\* lines 408-414: the outcome when the check's code is not 0
CheckFailedOutcome(check_data) ==
  Outcome(FALSE, Get(check_data.message, PyStr(MsgCheckFailed)), FALSE, PyNone, 0)

\* lines 407-443, given check_attendance's payload: the outcome perform_checkin
\* returns before the claim, the exception raised, or the baseline it goes on with
AfterCheck(check_data) ==
  IF Get(check_data.code, PyNone) # PyInt(CodeOk)
  THEN Value(CheckFailedOutcome(check_data))
  ELSE IF check_data.data = PyNone THEN Raise(ExcNoneGet)
  ELSE LET data == check_data.data
           has_today == IF data = Absent THEN PyBool(FALSE) ELSE Get(data.dict.hasToday, PyBool(FALSE))
           calendar == IF data = Absent THEN PyList(<<>>) ELSE Get(data.dict.calendar, PyList(<<>>))
           resource_map == IF data = Absent THEN EmptyMap ELSE Get(data.dict.resourceInfoMap, EmptyMap)
       IN IF calendar = PyNone THEN Raise(ExcNoneIter)
          ELSE IF Truthy(has_today) THEN AlreadyTodayOutcome(calendar.list, resource_map)
          ELSE [claim |-> TotalSigned(calendar.list)]

\* line 461: award.get("id") if isinstance(award, dict) else award
AwardIdOf(award) == IF IsDict(award) THEN Get(award.dict.id, PyNone) ELSE award

\* lines 460-468: the rewards of the awards from entry i on
RECURSIVE Rewards(_, _, _, _)
Rewards(award_ids, claim_resource_map, i, rewards) ==
  IF i > Len(award_ids) THEN Value(rewards)
  ELSE LET award_id == AwardIdOf(award_ids[i]) IN
    IF ~Truthy(award_id) \/ claim_resource_map.dict[award_id.str] = Absent
    THEN Rewards(award_ids, claim_resource_map, i + 1, rewards)
    ELSE IF claim_resource_map.dict[award_id.str] = PyNone THEN Raise(ExcNoneGet)
    ELSE Rewards(award_ids, claim_resource_map, i + 1,
                 Append(rewards, RewardOf(claim_resource_map.dict[award_id.str])))

\* line 471: ", ".join([f"{r['name']} x{r['count']}" for r in rewards]) if rewards else "Unknown"
RewardText(rewards) ==
  IF Len(rewards) = 0 THEN MsgUnknown
  ELSE Join(<<","," ">>, [i \in 1..Len(rewards) |->
                        Fmt(rewards[i].dict.name) \o <<" ","x">> \o Fmt(rewards[i].dict.count)])

\* lines 453-481: the outcome of a claim with code 0
ClaimedOutcome(claim_data, total_signed) ==
  IF claim_data.data = PyNone THEN Raise(ExcNoneGet)
  ELSE LET data == claim_data.data
           award_ids == IF data = Absent THEN PyList(<<>>) ELSE Get(data.dict.awardIds, PyList(<<>>))
           claim_resource_map == IF data = Absent THEN EmptyMap ELSE Get(data.dict.resourceInfoMap, EmptyMap)
           found == IF Truthy(award_ids) /\ Truthy(claim_resource_map)
                    THEN Rewards(award_ids.list, claim_resource_map, 1, <<>>)
                    ELSE Value(<<>>)
       IN IF IsRaise(found) THEN found
          ELSE Value(Outcome(TRUE, PyStr(MsgSigned \o RewardText(found.value)), FALSE,
                             IF Len(found.value) > 0 THEN found.value[1] ELSE PyNone,
                             total_signed + 1))

\* line 484 without the .lower()
IsAlreadyClaimed_CaseSensitive(code, msg) ==
  IF code \in {PyInt(CodeAlreadyA), PyInt(CodeAlreadyB)} THEN Value(TRUE)
  ELSE IF msg = PyNone THEN Raise(ExcNoneLower)
  ELSE Value(Contains(msg.str, <<"a","l","r","e","a","d","y">>))
\* line 494 tested before line 484: code 10002 is never taken as already claimed
IsAlreadyClaimed_AfterExpired(code, msg) ==
  IF code = PyInt(CodeExpired) THEN Value(FALSE)
  ELSE IF code \in {PyInt(CodeAlreadyA), PyInt(CodeAlreadyB)} THEN Value(TRUE)
  ELSE IF msg = PyNone THEN Raise(ExcNoneLower)
  ELSE Value(Contains(Lower(msg.str), <<"a","l","r","e","a","d","y">>))
\* line 484: code in [1001, 10001] or "already" in msg.lower()
IsAlreadyClaimed(code, msg) ==
  IF code \in {PyInt(CodeAlreadyA), PyInt(CodeAlreadyB)} THEN Value(TRUE)
  ELSE IF msg = PyNone THEN Raise(ExcNoneLower)
  ELSE Value(Contains(Lower(msg.str), <<"a","l","r","e","a","d","y">>))

\* lines 485-491 reporting a failure
AlreadyClaimedOutcome_Failure(total_signed) ==
  Outcome(FALSE, PyStr(MsgAlready), TRUE, PyNone, total_signed)
\* lines 485-491: the claim says the day was claimed before
AlreadyClaimedOutcome(total_signed) ==
  Outcome(TRUE, PyStr(MsgAlready), TRUE, PyNone, total_signed)

\* lines 495-501 keeping the baseline, as lines 505-511 do
ExpiredOutcome_KeepsBaseline(total_signed) ==
  Outcome(FALSE, PyStr(MsgExpired), FALSE, PyNone, total_signed)
\* lines 495-501: the claim says the token expired
ExpiredOutcome(total_signed) == Outcome(FALSE, PyStr(MsgExpired), FALSE, PyNone, 0)

\* lines 505-511: any other claim code
OtherErrorOutcome(code, msg, total_signed) ==
  Outcome(FALSE, PyStr(<<"A","P","I"," ","E","r","r","o","r"," ","(","c","o","d","e"," ">> \o Fmt(code) \o <<")",":"," ">> \o Fmt(msg)),
          FALSE, PyNone, total_signed)

\* lines 448-511, given claim_attendance's payload and the baseline
AfterClaim(claim_data, total_signed) ==
  LET code == Get(claim_data.code, PyNone)
      msg == Get(claim_data.message, PyStr(<<>>))
  IN IF code = PyInt(CodeOk) THEN ClaimedOutcome(claim_data, total_signed)
     ELSE LET already == IsAlreadyClaimed(code, msg) IN
       IF IsRaise(already) THEN already
       ELSE IF already.value THEN Value(AlreadyClaimedOutcome(total_signed))
       ELSE IF code = PyInt(CodeExpired) THEN Value(ExpiredOutcome(total_signed))
       ELSE Value(OtherErrorOutcome(code, msg, total_signed))

\* lines 393 and 513-521: an exception raised inside perform_checkin becomes an outcome
Caught(result) == IF IsRaise(result) THEN ExceptionOutcome(result.raise) ELSE result.value

\* Game.sign, lines 63-71: the except branch
SignExceptionResult(text) == Outcome(FALSE, PyStr(text), FALSE, PyNone, 0)

\* Game.sign, lines 55-61, given what perform_checkin returned: result["success"]
\* and result["message"] raise KeyError on a missing key, the other three
\* fields are read with result.get and a default
SignResult(result) ==
  IF "success" \notin DOMAIN result
  THEN SignExceptionResult(<<"'","s","u","c","c","e","s","s","'">>)
  ELSE IF "message" \notin DOMAIN result
  THEN SignExceptionResult(<<"'","m","e","s","s","a","g","e","'">>)
  ELSE Outcome(result.success,
               result.message,
               IF "already_signed" \in DOMAIN result THEN result.already_signed ELSE FALSE,
               IF "reward" \in DOMAIN result THEN result.reward ELSE PyNone,
               IF "total_sign_day" \in DOMAIN result THEN result.total_sign_day ELSE 0)

\* ------------------------------------------------------------ state
VARIABLES
  account_token,  \* self.account_token
  account_name,   \* self.account_name
  cred,           \* self.cred
  sign_token,     \* self.sign_token
  game_role,      \* self.game_role
  pc,             \* where perform_checkin stands: the request it issues next
  now,            \* the clock time.time() reads, in whole seconds
  locals,         \* authenticate's oauth_code, cred, sign_token, game_role (Absent: not assigned)
  auth_ret,       \* what authenticate returned (Absent: it has not returned)
  hop_data,       \* the response the latest helper of authenticate got
  check_data,     \* perform_checkin's check_data
  total_signed,   \* perform_checkin's total_signed
  claim_data,     \* perform_checkin's claim_data
  outcome,        \* what perform_checkin returned (Absent: it has not returned)
  requests,       \* the requests issued since perform_checkin was called, in order
  calls,          \* how many times perform_checkin has been called so far
  self_data,      \* Game.data (self.data): the accounts, a list of {name, cookie}
  index,          \* process_all_accounts: the position in self.data of the account at hand
  sign_result,    \* what Game.sign returned for the account at hand (Absent: not yet)
  results,        \* process_all_accounts' results
  signing,        \* two calls of _compute_sign: their arguments and what they returned
  replay,         \* the upstream's responses to a first run, and that run's requests and
                  \* outcome once it is over, for a second run under another label
  success_results,\* process_game_checkins' success_results (empty until line 236)
  notifications   \* the notifications process_game_checkins attempted, in order

vars == <<account_token, account_name, cred, sign_token, game_role, pc, now, locals,
          auth_ret, hop_data, check_data, total_signed, claim_data, outcome, requests,
          calls, self_data, index, sign_result, results, signing,
                 replay, success_results, notifications>>

\* the state of Game and of the signature calls, which no step of the adapter touches
caller == <<self_data, index, sign_result, results, signing,
                 replay, success_results, notifications>>

NoLocals == [oauth_code |-> Absent, cred |-> Absent, sign_token |-> Absent, game_role |-> Absent]

\* line 52: the token is a cred value (short token)
IsCredValue(token) == ~StartsWith(token, JwtPrefix) /\ Len(token) < CredLenLimit

\* a cred kept from the first call and given to every adapter
ConstructedCred_Shared(token) == PyStr(<<"c","r","1">>)
\* lines 46 and 52-54: self.cred after __init__
ConstructedCred(token) == IF IsCredValue(token) THEN PyStr(token) ELSE PyNone

\* EndfieldAdapter.__init__
Init ==
  /\ account_token \in Tokens
  /\ account_name \in AccountNames
  /\ cred = ConstructedCred(account_token)
  /\ sign_token = PyNone
  /\ game_role = PyNone
  /\ pc = "ready"
  /\ now = 0
  /\ locals = NoLocals
  /\ auth_ret = Absent
  /\ hop_data = Absent
  /\ check_data = Absent
  /\ total_signed = Absent
  /\ claim_data = Absent
  /\ outcome = Absent
  /\ requests = <<>>
  /\ calls = 0
  /\ self_data = <<>>
  /\ index = 0
  /\ sign_result = Absent
  /\ results = <<>>
  /\ signing = Absent
  /\ replay = Absent
  /\ success_results = <<>>
  /\ notifications = <<>>

\* a clock that never answers
ClockReads_None == {}
\* time.time(): the clock does not run backwards
ClockReads == {t \in now..(now + 1) : t <= MaxClock}

\* line 269 without the test: authenticate goes to the refresh at once
NeedsOAuth_Never(c) == FALSE
\* line 269: if not self.cred
NeedsOAuth(c) == ~Truthy(c)

\* lines 273, 277, 284 without the tests: authenticate goes on whatever a hop gave
HopFailed_Never(value) == FALSE
\* lines 273, 277, 284: if not oauth_code / cred / sign_token: return False
HopFailed(value) == ~Truthy(value)

\* line 294 returning whether a role was found
AuthResult_NeedsRole(role) == PyBool(Truthy(role))
\* line 294: authenticate's return after the binding lookup
AuthResult(role) == PyBool(TRUE)

\* a header that carries the account label
CheckRoleHeader_ByLabel(role) == PyStr(account_name)
\* lines 324-325: the sk-game-role header of the check (Absent: not sent)
CheckRoleHeader(role) == IF Truthy(role) THEN role ELSE Absent

\* lines 363-364 without the test
ClaimRoleHeader_Always(role) == role
\* lines 363-364: the sk-game-role header of the claim
ClaimRoleHeader(role) == IF Truthy(role) THEN role ELSE Absent

\* lines 336, 378: {"code": -1, "message": str(e)}
ErrorPayload(text) == [code |-> PyInt(CodeLocalError), message |-> PyStr(text), data |-> Absent]

\* lines 396-402 calling perform_checkin anew instead of returning
AfterAuthFailed_Retry == "ready"
\* lines 396-402: after a failed authentication perform_checkin is over
AfterAuthFailed == "done"

\* authenticate returned False: perform_checkin returns lines 396-402
AuthFailed ==
  /\ auth_ret' = PyBool(FALSE)
  /\ outcome' = AuthFailedOutcome
  /\ pc' = AfterAuthFailed

\* perform_checkin is called and calls authenticate (lines 393-395, 267-270)
PerformCheckin ==
  /\ pc = "ready"
  /\ pc' = IF NeedsOAuth(cred) THEN "oauth" ELSE "refresh"
  /\ calls' = calls + 1
  /\ UNCHANGED <<account_token, account_name, cred, sign_token, game_role, now, locals,
                 auth_ret, hop_data, check_data, total_signed, claim_data, outcome, requests>>
  /\ UNCHANGED caller

\* _get_oauth_code and lines 272-274
GetOAuthCodeFrom(responses) ==
  /\ pc = "oauth"
  /\ \E resp \in responses :
       LET oauth_code == get_oauth_code(resp) IN
         /\ requests' = Append(requests, [name |-> "oauth_grant", token |-> account_token])
         /\ hop_data' = resp
         /\ locals' = [locals EXCEPT !.oauth_code = oauth_code]
         /\ IF HopFailed(oauth_code)
            THEN AuthFailed
            ELSE pc' = "cred" /\ UNCHANGED <<auth_ret, outcome>>
  /\ UNCHANGED <<account_token, account_name, cred, sign_token, game_role, now,
                 check_data, total_signed, claim_data>>
  /\ UNCHANGED <<calls, caller>>

\* the same, for every response the upstream can give
GetOAuthCode == GetOAuthCodeFrom(OAuthResponses)

\* _get_cred and lines 276-280
GetCredFrom(responses) ==
  /\ pc = "cred"
  /\ \E resp \in responses :
       LET c == get_cred(resp) IN
         /\ requests' = Append(requests, [name |-> "generate_cred", code |-> locals.oauth_code])
         /\ hop_data' = resp
         /\ locals' = [locals EXCEPT !.cred = c]
         /\ IF HopFailed(c)
            THEN AuthFailed /\ UNCHANGED cred
            ELSE pc' = "refresh" /\ cred' = c /\ UNCHANGED <<auth_ret, outcome>>
  /\ UNCHANGED <<account_token, account_name, sign_token, game_role, now,
                 check_data, total_signed, claim_data>>
  /\ UNCHANGED <<calls, caller>>

\* the same, for every response the upstream can give
GetCred == GetCredFrom(CredResponses)

\* _get_sign_token and lines 283-287
GetSignTokenFrom(responses) ==
  /\ pc = "refresh"
  /\ \E t \in ClockReads, resp \in responses :
       LET tok == get_sign_token(resp) IN
         /\ now' = t
         /\ requests' = Append(requests, [name |-> "refresh", cred |-> cred,
                                          timestamp |-> Timestamp(t)])
         /\ hop_data' = resp
         /\ locals' = [locals EXCEPT !.sign_token = tok]
         /\ IF HopFailed(tok)
            THEN AuthFailed /\ UNCHANGED sign_token
            ELSE pc' = "binding" /\ sign_token' = tok /\ UNCHANGED <<auth_ret, outcome>>
  /\ UNCHANGED <<account_token, account_name, cred, game_role, check_data, total_signed,
                 claim_data>>
  /\ UNCHANGED <<calls, caller>>

\* the same, for every response the upstream can give
GetSignToken == GetSignTokenFrom(RefreshResponses)

\* _get_player_binding, called at line 290
GetPlayerBindingFrom(responses) ==
  /\ pc = "binding"
  /\ \E t \in ClockReads, resp \in responses :
       LET signature == compute_sign(sign_token, BindingPath, <<>>, Timestamp(t))
           role == IF IsRaise(signature) THEN PyNone ELSE get_player_binding(resp)
       IN
         /\ now' = t
         /\ requests' = IF IsRaise(signature) THEN requests
                        ELSE Append(requests, [name |-> "binding", cred |-> cred,
                                               timestamp |-> Timestamp(t),
                                               sign |-> signature.value])
         /\ hop_data' = IF IsRaise(signature) THEN Absent ELSE resp
         /\ locals' = [locals EXCEPT !.game_role = role]
  /\ pc' = "bound"
  /\ UNCHANGED <<account_token, account_name, cred, sign_token, game_role, auth_ret,
                 check_data, total_signed, claim_data, outcome>>
  /\ UNCHANGED <<calls, caller>>

\* the same, for every response the upstream can give
GetPlayerBinding == GetPlayerBindingFrom(BindingResponses)

\* lines 291-294: authenticate stores the role and returns
AuthenticateReturn ==
  /\ pc = "bound"
  /\ game_role' = locals.game_role
  /\ auth_ret' = AuthResult(locals.game_role)
  /\ IF auth_ret' = PyBool(TRUE)
     THEN pc' = "check" /\ UNCHANGED outcome
     ELSE outcome' = AuthFailedOutcome /\ pc' = "done"
  /\ hop_data' = Absent
  /\ UNCHANGED <<account_token, account_name, cred, sign_token, now, locals,
                 check_data, total_signed, claim_data, requests>>
  /\ UNCHANGED <<calls, caller>>

\* check_attendance and lines 405-443
CheckAttendanceFrom(responses) ==
  /\ pc = "check"
  /\ \E t \in ClockReads, resp \in responses :
       LET signature == compute_sign(sign_token, AttendancePath, <<>>, Timestamp(t))
           payload == IF IsRaise(signature) THEN ErrorPayload(signature.raise)
                      ELSE IF IsError(resp) THEN ErrorPayload(resp.error)
                      ELSE resp.json
           result == AfterCheck(payload)
       IN
         /\ now' = t
         /\ requests' = IF IsRaise(signature) THEN requests
                        ELSE Append(requests, [name |-> "check", cred |-> cred,
                                               timestamp |-> Timestamp(t),
                                               sign |-> signature.value,
                                               role |-> CheckRoleHeader(game_role)])
         /\ check_data' = payload
         /\ IF DOMAIN result = {"claim"}
            THEN pc' = "claim" /\ total_signed' = PyInt(result.claim) /\ UNCHANGED outcome
            ELSE pc' = "done" /\ outcome' = Caught(result) /\ UNCHANGED total_signed
  /\ UNCHANGED <<account_token, account_name, cred, sign_token, game_role, locals,
                 auth_ret, hop_data, claim_data>>
  /\ UNCHANGED <<calls, caller>>

\* the same, for every response the upstream can give
CheckAttendance == CheckAttendanceFrom(CheckResponses)

\* claim_attendance and lines 446-511
ClaimAttendanceFrom(responses) ==
  /\ pc = "claim"
  /\ \E t \in ClockReads, resp \in responses :
       LET signature == compute_sign(sign_token, AttendancePath, <<>>, Timestamp(t))
           payload == IF IsRaise(signature) THEN ErrorPayload(signature.raise)
                      ELSE IF IsError(resp) THEN ErrorPayload(resp.error)
                      ELSE resp.json
       IN
         /\ now' = t
         /\ requests' = IF IsRaise(signature) THEN requests
                        ELSE Append(requests, [name |-> "claim", cred |-> cred,
                                               timestamp |-> Timestamp(t),
                                               sign |-> signature.value,
                                               role |-> ClaimRoleHeader(game_role)])
         /\ claim_data' = payload
         /\ outcome' = Caught(AfterClaim(payload, total_signed.int))
         /\ pc' = "done"
  /\ UNCHANGED <<account_token, account_name, cred, sign_token, game_role, locals,
                 auth_ret, hop_data, check_data, total_signed>>
  /\ UNCHANGED <<calls, caller>>

\* the same, for every response the upstream can give
ClaimAttendance == ClaimAttendanceFrom(ClaimResponses)

Next ==
  \/ PerformCheckin
  \/ GetOAuthCode
  \/ GetCred
  \/ GetSignToken
  \/ GetPlayerBinding
  \/ AuthenticateReturn
  \/ CheckAttendance
  \/ ClaimAttendance

Spec == Init /\ [][Next]_vars

\* ------------------------------------------------------------ several accounts
(***************************************************************************)
(* Game.process_all_accounts: one Game.sign per account of self.data, each *)
(* with an EndfieldAdapter of its own.  The upstream's responses here are  *)
(* one failure of each kind and one success per request; the values a      *)
(* success carries name the call they were given to, so that a value used  *)
(* by another call is told apart.                                          *)
(***************************************************************************)
\* how many accounts self.data holds at most
MaxAccounts == 2

\* the text that names call k in the values handed to it
Tag(k) == IntToStr(k)

ErrTimedOut == HttpError(<<"t","i","m","e","d"," ","o","u","t">>)

CallOAuthResponses(k) ==
  {ErrTimedOut,
   Json([status |-> PyInt(1), data |-> Absent, msg |-> Absent]),
   Json([status |-> PyInt(CodeOk), data |-> PyDict([code |-> PyStr(<<"o","c">> \o Tag(k))]), msg |-> Absent])}

CallCredResponses(k) ==
  {ErrTimedOut,
   Json([code |-> PyInt(1), data |-> Absent, message |-> Absent]),
   Json([code |-> PyInt(CodeOk), data |-> PyDict([cred |-> PyStr(<<"c","r">> \o Tag(k))]), message |-> Absent])}

CallRefreshResponses(k) ==
  {ErrTimedOut,
   Json([code |-> PyInt(1), data |-> Absent, message |-> Absent]),
   Json([code |-> PyInt(CodeOk), data |-> PyDict([token |-> PyStr(<<"s","t">> \o Tag(k))]), message |-> Absent])}

CallRole(k) == PyDict([roleId |-> PyStr(<<"r">> \o Tag(k)), serverId |-> PyStr(<<"s","1">>)])

CallBindingResponses(k) ==
  {ErrTimedOut,
   Json([code |-> PyInt(CodeOk),
         data |-> PyDict([list |-> PyList(<<PyDict([appCode |-> PyStr(<<"e","n","d","f","i","e","l","d">>),
                                                    bindingList |-> PyList(<<PyDict([defaultRole |-> CallRole(k), roles |-> Absent])>>)])>>)])])}

OneDoneDay == PyList(<<[done |-> PyBool(TRUE), awardId |-> PyStr(A1)]>>)
OrundumMap == PyDict([a \in AwardIds |-> IF a = A1 THEN ResOrundum ELSE Absent])

CallCheckResponses ==
  {ErrTimedOut,
   Json([code |-> PyInt(CodeOk), message |-> Absent,
         data |-> PyDict([hasToday |-> PyBool(TRUE), calendar |-> OneDoneDay, resourceInfoMap |-> OrundumMap])]),
   Json([code |-> PyInt(CodeOk), message |-> Absent,
         data |-> PyDict([hasToday |-> PyBool(FALSE), calendar |-> OneDoneDay, resourceInfoMap |-> Absent])])}

CallClaimResponses ==
  {ErrTimedOut,
   Json([code |-> PyInt(CodeOk), message |-> Absent,
         data |-> PyDict([awardIds |-> PyList(<<PyStr(A1)>>), resourceInfoMap |-> OrundumMap])]),
   Json([code |-> PyInt(CodeExpired), message |-> PyStr(<<"f","a","i","l">>), data |-> Absent])}

\* the tokens of account i: a cred value and an encoded ACCOUNT_TOKEN
CallShortToken(i) == <<"t","k">> \o Tag(i)
CallLongToken(i) == JwtPrefix \o Tag(i)

\* self.data: up to MaxAccounts accounts, account i named "a<i>"
AccountLists ==
  UNION {{l \in [1..n -> [name : {PyStr(<<"a">> \o Tag(i)) : i \in 1..n},
                          cookie : UNION {{CallShortToken(i), CallLongToken(i)} : i \in 1..n}]] :
            \A i \in 1..n : /\ l[i].name = PyStr(<<"a">> \o Tag(i))
                            /\ l[i].cookie \in {CallShortToken(i), CallLongToken(i)}} :
         n \in 1..MaxAccounts}

\* config["game"]
FULL_NAME == <<"A","r","k","n","i","g","h","t","s",":"," ","E","n","d","f","i","e","l","d">>

\* account_name's default in EndfieldAdapter.__init__
DefaultAccountName == <<"U","n","k","n","o","w","n">>

\* Game.__init__ and the entry of process_all_accounts (line 80): no adapter yet
InitAccounts ==
  /\ self_data \in AccountLists
  /\ index = 1
  /\ results = <<>>
  /\ sign_result = Absent
  /\ pc = "loop"
  /\ account_token = <<>>
  /\ account_name = DefaultAccountName
  /\ cred = PyNone
  /\ sign_token = PyNone
  /\ game_role = PyNone
  /\ now = 0
  /\ locals = NoLocals
  /\ auth_ret = Absent
  /\ hop_data = Absent
  /\ check_data = Absent
  /\ total_signed = Absent
  /\ claim_data = Absent
  /\ outcome = Absent
  /\ requests = <<>>
  /\ calls = 0
  /\ signing = Absent
  /\ replay = Absent
  /\ success_results = <<>>
  /\ notifications = <<>>

\* lines 82-89 and 46-50: the loop takes the next account, Game.sign builds a
\* new EndfieldAdapter for its token
Sign ==
  /\ pc = "loop"
  /\ index <= Len(self_data)
  /\ account_token' = self_data[index].cookie
  /\ account_name' = DefaultAccountName
  /\ cred' = ConstructedCred(self_data[index].cookie)
  /\ sign_token' = PyNone
  /\ game_role' = PyNone
  /\ locals' = NoLocals
  /\ auth_ret' = Absent
  /\ hop_data' = Absent
  /\ check_data' = Absent
  /\ total_signed' = Absent
  /\ claim_data' = Absent
  /\ outcome' = Absent
  /\ requests' = <<>>
  /\ pc' = "ready"
  /\ UNCHANGED <<now, calls, self_data, index, sign_result, results, signing,
                 replay, success_results, notifications>>

\* lines 53-61: perform_checkin returned, Game.sign returns
SignReturn ==
  /\ pc = "done"
  /\ sign_result' = SignResult(outcome)
  /\ pc' = "signed"
  /\ UNCHANGED <<account_token, account_name, cred, sign_token, game_role, now, locals,
                 auth_ret, hop_data, check_data, total_signed, claim_data, outcome, requests,
                 calls, self_data, index, results, signing,
                 replay, success_results, notifications>>

\* lines 92-104: the result of one account
ResultRow(name, sign_res) ==
  [account_name |-> name,
   game |-> PyStr(FULL_NAME),
   success |-> sign_res.success,
   message |-> sign_res.message,
   already_signed |-> IF "already_signed" \in DOMAIN sign_res THEN sign_res.already_signed ELSE FALSE,
   reward |-> IF "reward" \in DOMAIN sign_res THEN sign_res.reward ELSE PyNone,
   total_sign_day |-> IF "total_sign_day" \in DOMAIN sign_res THEN sign_res.total_sign_day ELSE 0,
   uid |-> PyNone, nickname |-> PyNone, rank |-> PyNone, region |-> PyNone]

\* line 82 leaving the loop at the first account that failed
LoopGoesOn_WhileSuccess(sign_res) == sign_res.success
\* line 82: the for loop goes on to the next account whatever the last one gave
LoopGoesOn(sign_res) == TRUE

\* lines 91-106: the account's result is appended, the loop moves on
AppendResult ==
  /\ pc = "signed"
  /\ results' = Append(results, ResultRow(self_data[index].name, sign_result))
  /\ index' = index + 1
  /\ sign_result' = Absent
  /\ pc' = IF LoopGoesOn(sign_result) THEN "loop" ELSE "returned"
  /\ UNCHANGED <<account_token, account_name, cred, sign_token, game_role, now, locals,
                 auth_ret, hop_data, check_data, total_signed, claim_data, outcome, requests,
                 calls, self_data, signing,
                 replay, success_results, notifications>>

\* line 108: every account was taken, process_all_accounts returns results
ReturnResults ==
  /\ pc = "loop"
  /\ index > Len(self_data)
  /\ pc' = "returned"
  /\ UNCHANGED <<account_token, account_name, cred, sign_token, game_role, now, locals,
                 auth_ret, hop_data, check_data, total_signed, claim_data, outcome, requests,
                 calls, self_data, index, sign_result, results, signing,
                 replay, success_results, notifications>>

\* the requests of the call at hand, answered with the responses made for it
CallGetOAuthCode == GetOAuthCodeFrom(CallOAuthResponses(calls))
CallGetCred == GetCredFrom(CallCredResponses(calls))
CallGetSignToken == GetSignTokenFrom(CallRefreshResponses(calls))
CallGetPlayerBinding == GetPlayerBindingFrom(CallBindingResponses(calls))
CallCheckAttendance == CheckAttendanceFrom(CallCheckResponses)
CallClaimAttendance == ClaimAttendanceFrom(CallClaimResponses)

NextAccounts ==
  \/ Sign
  \/ PerformCheckin
  \/ CallGetOAuthCode
  \/ CallGetCred
  \/ CallGetSignToken
  \/ CallGetPlayerBinding
  \/ AuthenticateReturn
  \/ CallCheckAttendance
  \/ CallClaimAttendance
  \/ SignReturn
  \/ AppendResult
  \/ ReturnResults

SpecAccounts == InitAccounts /\ [][NextAccounts]_vars

\* ---------------------------------------------------------------------------
\* GameManager.process_game_checkins: process_all_accounts, then one
\* notification per result that counts as a success
\* ---------------------------------------------------------------------------

\* line 236: r["success"] or r.get("already_signed")
IsSuccessResult(r) == r.success \/ r.already_signed

\* how a call of send_discord_notification_direct ends: the message was sent
\* (line 146), the method returned before sending (lines 127, 135, 141), or an
\* exception was raised and caught (lines 149-150)
NotificationEnds == {"sent", "not sent", "error"}

\* line 236: the results are back and filtered; the last adapter is gone
FilterResults ==
  /\ pc = "returned"
  /\ success_results' = SelectSeq(results, IsSuccessResult)
  /\ pc' = "notify"
  /\ account_token' = <<>>
  /\ cred' = PyNone
  /\ sign_token' = PyNone
  /\ game_role' = PyNone
  /\ locals' = NoLocals
  /\ auth_ret' = Absent
  /\ hop_data' = Absent
  /\ check_data' = Absent
  /\ total_signed' = Absent
  /\ claim_data' = Absent
  /\ outcome' = Absent
  /\ requests' = <<>>
  /\ UNCHANGED <<account_name, now, calls, self_data, index, sign_result, results, signing,
                 replay, notifications>>

\* lines 240-241 stopping at the first notification that failed
AfterNotification_StopOnError(how) == IF how = "error" THEN "managed" ELSE "notify"
\* lines 240-241: whatever the notification came to, the loop goes on
AfterNotification(how) == "notify"

\* lines 240-241 and 110-150: the notification of the next success result
Notify ==
  /\ pc = "notify"
  /\ Len(notifications) < Len(success_results)
  /\ \E how \in NotificationEnds :
       /\ notifications' = Append(notifications,
                                  [result |-> success_results[Len(notifications) + 1], how |-> how])
       /\ pc' = AfterNotification(how)
  /\ UNCHANGED <<account_token, account_name, cred, sign_token, game_role, now, locals,
                 auth_ret, hop_data, check_data, total_signed, claim_data, outcome, requests,
                 calls, self_data, index, sign_result, results, signing, replay,
                 success_results>>

\* line 243: return success_results
ReturnSuccessResults ==
  /\ pc = "notify"
  /\ Len(notifications) = Len(success_results)
  /\ pc' = "managed"
  /\ UNCHANGED <<account_token, account_name, cred, sign_token, game_role, now, locals,
                 auth_ret, hop_data, check_data, total_signed, claim_data, outcome, requests,
                 calls, self_data, index, sign_result, results, signing, replay,
                 success_results, notifications>>

NextManager ==
  \/ NextAccounts
  \/ FilterResults
  \/ Notify
  \/ ReturnSuccessResults

SpecManager == InitAccounts /\ [][NextManager]_vars

\* ---------------------------------------------------------------------------
\* _compute_sign alone: two calls, each on an adapter whose sign_token is the
\* call's key
\* ---------------------------------------------------------------------------

\* arguments of _compute_sign: paths, bodies and timestamps of which some are
\* prefixes of others, so that different arguments can meet in the concatenation
SignPaths == {<<"/","a">>, <<"/","a","1">>, <<"/","b">>}
SignBodies == {<<>>, <<"1">>}
SignTimestamps == {<<"1">>, <<"1","1">>, <<"2">>}
SignKeys == {<<"k">>, <<"k","1">>}

SignArgs == [path : SignPaths, body : SignBodies, timestamp : SignTimestamps, key : SignKeys]

\* two calls still to be made
InitSign ==
  /\ signing \in [args : [1..2 -> SignArgs], out : {[i \in 1..2 |-> Absent]}]
  /\ replay = Absent
  /\ success_results = <<>>
  /\ notifications = <<>>
  /\ account_token = <<>>
  /\ account_name = DefaultAccountName
  /\ cred = PyNone
  /\ sign_token = PyNone
  /\ game_role = PyNone
  /\ pc = "sign"
  /\ now = 0
  /\ locals = NoLocals
  /\ auth_ret = Absent
  /\ hop_data = Absent
  /\ check_data = Absent
  /\ total_signed = Absent
  /\ claim_data = Absent
  /\ outcome = Absent
  /\ requests = <<>>
  /\ calls = 0
  /\ self_data = <<>>
  /\ index = 0
  /\ sign_result = Absent
  /\ results = <<>>

\* lines 220-258: self._compute_sign(path, body, timestamp) with self.sign_token = key
ComputeSign(i) ==
  /\ pc = "sign"
  /\ signing.out[i] = Absent
  /\ signing' = [signing EXCEPT !.out[i] =
                   compute_sign(PyStr(signing.args[i].key), signing.args[i].path,
                                signing.args[i].body, signing.args[i].timestamp)]
  /\ UNCHANGED <<account_token, account_name, cred, sign_token, game_role, pc, now, locals,
                 auth_ret, hop_data, check_data, total_signed, claim_data, outcome, requests,
                 calls, self_data, index, sign_result, results,
                 replay, success_results, notifications>>

NextSign == \E i \in 1..2 : ComputeSign(i)

SpecSign == InitSign /\ [][NextSign]_vars

\* ---------------------------------------------------------------------------
\* perform_checkin invoked more than once on one EndfieldAdapter: the fields
\* of the adapter (lines 44-49) live on between the invocations, the locals of
\* perform_checkin do not
\* ---------------------------------------------------------------------------

MaxInvocations == 2

\* EndfieldAdapter.__init__ with a cred value or an encoded token
InitReinvoke ==
  /\ account_token \in {CallShortToken(1), CallLongToken(1)}
  /\ account_name = DefaultAccountName
  /\ cred = ConstructedCred(account_token)
  /\ sign_token = PyNone
  /\ game_role = PyNone
  /\ pc = "ready"
  /\ now = 0
  /\ locals = NoLocals
  /\ auth_ret = Absent
  /\ hop_data = Absent
  /\ check_data = Absent
  /\ total_signed = Absent
  /\ claim_data = Absent
  /\ outcome = Absent
  /\ requests = <<>>
  /\ calls = 0
  /\ self_data = <<>>
  /\ index = 0
  /\ sign_result = Absent
  /\ results = <<>>
  /\ signing = Absent
  /\ replay = Absent
  /\ success_results = <<>>
  /\ notifications = <<>>

\* perform_checkin has returned and the holder of the adapter is about to call
\* it again: the last invocation's locals and its requests are gone, self.cred,
\* self.sign_token and self.game_role are what the last invocation left
Reinvoke ==
  /\ pc = "done"
  /\ calls < MaxInvocations
  /\ pc' = "ready"
  /\ locals' = NoLocals
  /\ auth_ret' = Absent
  /\ hop_data' = Absent
  /\ check_data' = Absent
  /\ total_signed' = Absent
  /\ claim_data' = Absent
  /\ outcome' = Absent
  /\ requests' = <<>>
  /\ UNCHANGED <<account_token, account_name, cred, sign_token, game_role, now, calls>>
  /\ UNCHANGED caller

NextReinvoke ==
  \/ PerformCheckin
  \/ CallGetOAuthCode
  \/ CallGetCred
  \/ CallGetSignToken
  \/ CallGetPlayerBinding
  \/ AuthenticateReturn
  \/ CallCheckAttendance
  \/ CallClaimAttendance
  \/ Reinvoke

SpecReinvoke == InitReinvoke /\ [][NextReinvoke]_vars

\* ---------------------------------------------------------------------------
\* one perform_checkin whose requests all return: the upstream answers each
\* with an error, a refusal or a success
\* ---------------------------------------------------------------------------

NextOnce ==
  \/ PerformCheckin
  \/ CallGetOAuthCode
  \/ CallGetCred
  \/ CallGetSignToken
  \/ CallGetPlayerBinding
  \/ AuthenticateReturn
  \/ CallCheckAttendance
  \/ CallClaimAttendance

\* perform_checkin is one sequential call: when the request it waits for has
\* returned, a response or an error, its next step is taken
SpecLive == Init /\ [][NextOnce]_vars /\ WF_vars(NextOnce)

\* ---------------------------------------------------------------------------
\* two runs of perform_checkin for one token under two account labels, the
\* upstream answering the second run as it answered the first
\* ---------------------------------------------------------------------------

\* account_name as a caller may give it to EndfieldAdapter.__init__
Labels == {DefaultAccountName, <<"a","1">>, <<"a","2">>}

\* EndfieldAdapter.__init__ for the first run; what the upstream will answer to
\* each request is drawn here
InitLabels ==
  /\ account_token \in {CallShortToken(1), CallLongToken(1)}
  /\ account_name \in Labels
  /\ replay \in [oauth_grant : CallOAuthResponses(1), generate_cred : CallCredResponses(1),
                 refresh : CallRefreshResponses(1), binding : CallBindingResponses(1),
                 check : CallCheckResponses, claim : CallClaimResponses, first : {Absent}]
  /\ cred = ConstructedCred(account_token)
  /\ sign_token = PyNone
  /\ game_role = PyNone
  /\ pc = "ready"
  /\ now = 0
  /\ locals = NoLocals
  /\ auth_ret = Absent
  /\ hop_data = Absent
  /\ check_data = Absent
  /\ total_signed = Absent
  /\ claim_data = Absent
  /\ outcome = Absent
  /\ requests = <<>>
  /\ calls = 0
  /\ self_data = <<>>
  /\ index = 0
  /\ sign_result = Absent
  /\ results = <<>>
  /\ signing = Absent
  /\ success_results = <<>>
  /\ notifications = <<>>

\* the first run is over: EndfieldAdapter.__init__ with the same token and
\* another label, in a run of its own
SecondRun ==
  /\ pc = "done"
  /\ replay.first = Absent
  /\ replay' = [replay EXCEPT !.first = [account_name |-> account_name, requests |-> requests,
                                         outcome |-> outcome]]
  /\ account_name' \in Labels \ {account_name}
  /\ cred' = ConstructedCred(account_token)
  /\ sign_token' = PyNone
  /\ game_role' = PyNone
  /\ pc' = "ready"
  /\ now' = 0
  /\ locals' = NoLocals
  /\ auth_ret' = Absent
  /\ hop_data' = Absent
  /\ check_data' = Absent
  /\ total_signed' = Absent
  /\ claim_data' = Absent
  /\ outcome' = Absent
  /\ requests' = <<>>
  /\ UNCHANGED <<account_token, calls, self_data, index, sign_result, results, signing,
                 success_results, notifications>>

NextLabels ==
  \/ PerformCheckin
  \/ GetOAuthCodeFrom({replay.oauth_grant})
  \/ GetCredFrom({replay.generate_cred})
  \/ GetSignTokenFrom({replay.refresh})
  \/ GetPlayerBindingFrom({replay.binding})
  \/ AuthenticateReturn
  \/ CheckAttendanceFrom({replay.check})
  \/ ClaimAttendanceFrom({replay.claim})
  \/ SecondRun

SpecLabels == InitLabels /\ [][NextLabels]_vars

\* ------------------------------------------------------------ properties
\* a request of that name was issued since perform_checkin was called
Sent(name) == \E i \in DOMAIN requests : requests[i].name = name

\* the number of calendar entries the check response marks done
DoneEntries(payload) ==
  IF payload.data \in {Absent, PyNone} THEN 0
  ELSE IF payload.data.dict.calendar \in {Absent, PyNone} THEN 0
  ELSE Cardinality({i \in DOMAIN payload.data.dict.calendar.list :
                      payload.data.dict.calendar.list[i].done = PyBool(TRUE)})

\* the response's message is a text with "already" in it, in any case
MessageHasAlready(payload) ==
  /\ payload.message \notin {Absent, PyNone}
  /\ Contains(Lower(payload.message.str), <<"a","l","r","e","a","d","y">>)

\* the check response has code 0 and hasToday = true
CheckSaysClaimedToday ==
  /\ check_data # Absent
  /\ Get(check_data.code, PyNone) = PyInt(0)
  /\ check_data.data \notin {Absent, PyNone}
  /\ check_data.data.dict.hasToday = PyBool(TRUE)

\* C1: whenever authentication succeeded and the check returned code 0 with
\* hasToday = true, perform_checkin returns success, already signed, "Already
\* signed in today", the number of done calendar entries, and sends no claim.
C1_ClaimedTodayIsSuccess ==
  (auth_ret = PyBool(TRUE) /\ CheckSaysClaimedToday)
    => /\ pc = "done"
       /\ outcome.success = TRUE
       /\ outcome.already_signed = TRUE
       /\ outcome.message = PyStr(<<"A","l","r","e","a","d","y"," ","s","i","g","n","e","d"," ","i","n"," ","t","o","d","a","y">>)
       /\ outcome.total_sign_day = DoneEntries(check_data)
       /\ ~Sent("claim")

\* the reward of the first awarded id that the claim response's own
\* resourceInfoMap resolves, None when no id resolves
FirstResolvedReward(payload) ==
  LET data == payload.data
      ids == IF data \in {Absent, PyNone} THEN <<>>
             ELSE IF data.dict.awardIds \in {Absent, PyNone} THEN <<>>
             ELSE data.dict.awardIds.list
      map == IF data \in {Absent, PyNone} THEN EmptyMap.dict
             ELSE IF data.dict.resourceInfoMap \in {Absent, PyNone} THEN EmptyMap.dict
             ELSE data.dict.resourceInfoMap.dict
      IdAt(i) == IF IsDict(ids[i]) THEN ids[i].dict.id ELSE ids[i]
      hits == {i \in DOMAIN ids : IdAt(i) # Absent /\ map[IdAt(i).str] # Absent}
      first == CHOOSE i \in hits : \A j \in hits : i <= j
  IN IF hits = {} THEN PyNone
     ELSE IF map[IdAt(first).str] = PyNone THEN PyNone
     ELSE RewardOf(map[IdAt(first).str])

\* C2: a claim answered with code 0 gives success, not already signed, the
\* baseline plus one, and the first resolved reward (None and the text
\* "Unknown" when none resolves).
C2_ClaimedIsBaselinePlusOne ==
  (claim_data # Absent /\ Get(claim_data.code, PyNone) = PyInt(0))
    => /\ pc = "done"
       /\ outcome.success = TRUE
       /\ outcome.already_signed = FALSE
       /\ outcome.total_sign_day = DoneEntries(check_data) + 1
       /\ outcome.reward = FirstResolvedReward(claim_data)
       /\ FirstResolvedReward(claim_data) = PyNone
            => outcome.message =
                 PyStr(<<"S","i","g","n","e","d"," ","i","n"," ","s","u","c","c","e","s","s","f","u","l","l","y","!"," ","R","e","w","a","r","d","s",":"," ","U","n","k","n","o","w","n">>)

\* the outcome of a day that was claimed before: success, already signed, no
\* reward, the baseline
IsAlreadySignedOutcome ==
  /\ pc = "done"
  /\ outcome.success = TRUE
  /\ outcome.already_signed = TRUE
  /\ outcome.reward = PyNone
  /\ outcome.total_sign_day = DoneEntries(check_data)

\* the claim response carries one of the codes 1001, 10001, or a message with
\* "already" in it
ClaimSaysAlready ==
  /\ claim_data # Absent
  /\ \/ Get(claim_data.code, PyNone) \in {PyInt(1001), PyInt(10001)}
     \/ MessageHasAlready(claim_data)

\* C3 as stated: a claim response with code 1001 or 10001, or with "already" in
\* its message, gives the already-signed outcome.
C3_Original == ClaimSaysAlready => IsAlreadySignedOutcome

\* C3, amended: the same, for a claim response whose code is not 0.
C3_AlreadyClaimed ==
  (ClaimSaysAlready /\ Get(claim_data.code, PyNone) # PyInt(0)) => IsAlreadySignedOutcome

\* C3's case: no sentinel code, the word "Already" in the message
C3_Witness ==
  /\ claim_data # Absent
  /\ claim_data.code = PyInt(500)
  /\ claim_data.message = PyStr(<<"A","l","r","e","a","d","y"," ","c","l","a","i","m","e","d">>)
  /\ pc = "done"
  /\ outcome.already_signed = TRUE
  /\ outcome.total_sign_day > 0

ClaimSaysExpired == claim_data # Absent /\ Get(claim_data.code, PyNone) = PyInt(10002)

C5_OtherErrorKeepsBaseline ==
  (/\ claim_data # Absent
   /\ Get(claim_data.code, PyNone) \notin {PyInt(0), PyInt(1001), PyInt(10001), PyInt(10002)}
   /\ ~MessageHasAlready(claim_data))
    => /\ pc = "done"
       /\ outcome.success = FALSE
       /\ IsStr(outcome.message)
       /\ Contains(outcome.message.str, Fmt(Get(claim_data.code, PyNone)))
       /\ claim_data.message \notin {Absent, PyNone}
            => Contains(outcome.message.str, claim_data.message.str)
       /\ outcome.total_sign_day = DoneEntries(check_data)

\* the latest request issued
LastRequest == requests[Len(requests)]

\* the status a credential hop's response carries: "status" for the OAuth grant,
\* "code" for the other two
HopStatus ==
  IF LastRequest.name = "oauth_grant" THEN Get(hop_data.json.status, PyNone)
  ELSE Get(hop_data.json.code, PyNone)

\* the value the latest credential hop handed back to authenticate
HopValue ==
  CASE LastRequest.name = "oauth_grant" -> locals.oauth_code
    [] LastRequest.name = "generate_cred" -> locals.cred
    [] LastRequest.name = "refresh" -> locals.sign_token

\* the latest request was a credential hop, and it failed: the request or the
\* decoding raised, the status is not 0, or the response holds no value
CredentialHopFailed ==
  /\ requests # <<>>
  /\ LastRequest.name \in {"oauth_grant", "generate_cred", "refresh"}
  /\ \/ IsError(hop_data)
     \/ HopStatus # PyInt(0)
     \/ HopValue \in {PyNone, PyStr(<<>>)}

\* C6: when a credential hop fails, perform_checkin has returned exactly
\* {success: false, "Authentication failed", already_signed: false, reward: null,
\* total_sign_day: 0}, whichever hop it was, and no check or claim was issued.
C6_HopFailureIsAuthFailed ==
  CredentialHopFailed
    => /\ pc = "done"
       /\ auth_ret = PyBool(FALSE)
       /\ outcome = [success |-> FALSE,
                     message |-> PyStr(<<"A","u","t","h","e","n","t","i","c","a","t","i","o","n"," ","f","a","i","l","e","d">>),
                     already_signed |-> FALSE,
                     reward |-> PyNone,
                     total_sign_day |-> 0]
       /\ ~Sent("check")
       /\ ~Sent("claim")

\* C6's case: the refresh answered with a token under a status that is not 0
C6_Witness ==
  /\ requests # <<>>
  /\ LastRequest.name = "refresh"
  /\ ~IsError(hop_data)
  /\ hop_data.json.code = PyInt(1)
  /\ hop_data.json.data = PyDict([token |-> PyStr(<<"s","t","1">>)])
  /\ pc = "done"
  /\ outcome.success = FALSE

\* C7: after a successful authentication, a check response whose code is not 0
\* gives success = false with the upstream message, not already signed, no
\* reward, 0 days, and no claim is issued.
C7_CheckFailureCarriesMessage ==
  (/\ auth_ret = PyBool(TRUE)
   /\ check_data # Absent
   /\ Get(check_data.code, PyNone) # PyInt(0))
    => /\ pc = "done"
       /\ outcome.success = FALSE
       /\ outcome.message = Get(check_data.message, PyStr(<<"F","a","i","l","e","d"," ","t","o"," ","c","h","e","c","k"," ","a","t","t","e","n","d","a","n","c","e">>))
       /\ outcome.already_signed = FALSE
       /\ outcome.reward = PyNone
       /\ outcome.total_sign_day = 0
       /\ ~Sent("claim")

\* C7's case: the check answered code 500 with a message of its own
C7_Witness ==
  /\ auth_ret = PyBool(TRUE)
  /\ check_data # Absent
  /\ check_data.code = PyInt(500)
  /\ check_data.message = PyStr(<<"S","e","r","v","e","r"," ","e","r","r","o","r">>)
  /\ pc = "done"
  /\ outcome.message = check_data.message

\* a RawToken is short-form: no "eyJ" at its start and fewer than 100 characters
IsShortForm(token) ==
  /\ ~(Len(token) >= 3 /\ SubSeq(token, 1, 3) = <<"e","y","J">>)
  /\ Len(token) < 100

\* C8: a short-form token never leads to the OAuth grant or the code exchange
\* and is the cred every request carries; a long-form token has led to the
\* OAuth grant as soon as authenticate has passed its first step.
C8_ShortFormSkipsOAuth ==
  /\ IsShortForm(account_token)
       => /\ ~Sent("oauth_grant")
          /\ ~Sent("generate_cred")
          /\ cred = PyStr(account_token)
          /\ \A i \in DOMAIN requests : requests[i].name = "refresh"
                => requests[i].cred = PyStr(account_token)
  /\ (~IsShortForm(account_token) /\ pc \notin {"ready", "oauth"})
       => Sent("oauth_grant")

\* the refresh call of this call of authenticate handed back a signing token,
\* which is stored next to a cred
SignTokenObtained ==
  /\ Sent("refresh")
  /\ locals.sign_token \notin {Absent, PyNone, PyStr(<<>>)}
  /\ sign_token = locals.sign_token
  /\ cred \notin {PyNone, PyStr(<<>>)}

\* C9: authenticate has returned True if and only if the refresh call handed it
\* a signing token; what the binding lookup gave makes no difference.
C9_AuthIffSignToken ==
  auth_ret # Absent => (auth_ret = PyBool(TRUE) <=> SignTokenObtained)

\* C9's case: authenticate returned True although the binding lookup raised
C9_Witness ==
  /\ auth_ret = PyBool(TRUE)
  /\ SignTokenObtained
  /\ Sent("binding")
  /\ locals.game_role = PyNone
  /\ game_role = PyNone

\* the check and claim requests issued so far
SignedCalls == {i \in DOMAIN requests : requests[i].name \in {"check", "claim"}}

\* C10: once the binding lookup is over, authenticate returns True; without a
\* role game_role stays None and the check and the claim carry no sk-game-role
\* header, with a role both carry it.
C10_RoleHeaderFollowsBinding ==
  (auth_ret # Absent /\ locals.game_role # Absent)
    => /\ auth_ret = PyBool(TRUE)
       /\ game_role = locals.game_role
       /\ \A i \in SignedCalls :
            requests[i].role = IF locals.game_role = PyNone THEN Absent ELSE locals.game_role

\* C10's case: the lookup gave no role, and a check and a claim went out
C10_Witness ==
  /\ auth_ret = PyBool(TRUE)
  /\ locals.game_role = PyNone
  /\ Sent("check")
  /\ Sent("claim")
  /\ \A i \in SignedCalls : requests[i].role = Absent

\* the requests that carry a signature
IsSigned(name) == name \in {"binding", "check", "claim"}

\* C11: from the moment authenticate turns to the binding lookup, the token the
\* refresh call handed back is stored in sign_token; every signed request went
\* out after the refresh, with a signature keyed by that token.
C11_SignTokenBeforeSigning ==
  /\ pc \in {"binding", "bound", "check", "claim"}
       => /\ IsStr(sign_token)
          /\ Len(sign_token.str) > 0
          /\ sign_token = locals.sign_token
          /\ Sent("refresh")
  /\ \A i \in DOMAIN requests :
       IsSigned(requests[i].name)
         => /\ IsStr(sign_token)
            /\ requests[i].sign.md5.hmac_sha256_key = sign_token.str
            /\ \E j \in 1..(i - 1) : requests[j].name = "refresh"

\* C11's case: the three signed requests went out
C11_Witness ==
  /\ Sent("binding")
  /\ Sent("check")
  /\ Sent("claim")
  /\ sign_token = PyStr(<<"s","t","1">>)

\* the fields of a check-in outcome
OutcomeFields == {"success", "message", "already_signed", "reward", "total_sign_day"}

\* a record of the five fields, with a boolean verdict, a day count and a reward
\* that is None or a {name, count, icon}
IsOutcomeRecord(r) ==
  /\ DOMAIN r = OutcomeFields
  /\ r.success \in BOOLEAN
  /\ r.already_signed \in BOOLEAN
  /\ r.total_sign_day \in Nat
  /\ r.reward = PyNone \/ (IsDict(r.reward) /\ DOMAIN r.reward.dict = {"name", "count", "icon"})

C13_OneResultPerAccount ==
  /\ Len(results) = index - 1
  /\ Len(results) <= Len(self_data)
  /\ \A i \in DOMAIN results :
       /\ results[i].account_name = self_data[i].name
       /\ results[i].success \in BOOLEAN
  /\ pc = "returned" => Len(results) = Len(self_data)
  /\ pc \in {"loop", "done", "signed"} => ENABLED (Sign \/ SignReturn \/ AppendResult \/ ReturnResults)

\* C13's case: the first account failed to authenticate, the second was
\* processed all the same and signed in
C13_Witness ==
  /\ pc = "returned"
  /\ Len(self_data) = 2
  /\ Len(results) = 2
  /\ results[1].success = FALSE
  /\ results[1].message = PyStr(<<"A","u","t","h","e","n","t","i","c","a","t","i","o","n"," ","f","a","i","l","e","d">>)
  /\ results[2].success = TRUE
  /\ results[2].account_name = PyStr(<<"a","2">>)

\* the payload is the one check_attendance / claim_attendance make up when the
\* request or the decoding raised: code -1 and the error text
IsSyntheticPayload(payload) ==
  /\ payload # Absent
  /\ payload.code = PyInt(-1)
  /\ IsStr(payload.message)
  /\ payload.message.str \in ErrTexts

\* C14: a check or a claim that failed in transport or decoding gives the
\* payload with code -1 and the error text, and perform_checkin's outcome is
\* then success = false, whatever the error text.
C14_TransportErrorIsFailure ==
  /\ IsSyntheticPayload(check_data)
       => /\ pc = "done"
          /\ outcome.success = FALSE
          /\ ~Sent("claim")
  /\ IsSyntheticPayload(claim_data)
       => /\ pc = "done"
          /\ outcome.success = FALSE

\* the six upstream requests
RequestNames == {"oauth_grant", "generate_cred", "refresh", "binding", "check", "claim"}

\* how many requests of that name were issued
TimesSent(name) == Cardinality({i \in DOMAIN requests : requests[i].name = name})

\* C15: within one invocation of perform_checkin each of the six requests is
\* issued at most once, and once perform_checkin has returned, after a failure
\* as after a success, nothing more is issued.
C15_NoRetry ==
  /\ calls <= 1
  /\ \A i \in DOMAIN requests : requests[i].name \in RequestNames
  /\ \A name \in RequestNames : TimesSent(name) <= 1
  /\ pc = "done" => ~ENABLED Next

\* C15's case: the refresh failed, and it was issued once
C15_Witness ==
  /\ pc = "done"
  /\ requests # <<>>
  /\ LastRequest.name = "refresh"
  /\ IsError(hop_data)
  /\ TimesSent("refresh") = 1
  /\ outcome.success = FALSE

\* the signed requests issued so far
SignedRequests == {i \in DOMAIN requests : IsSigned(requests[i].name)}

\* the path of the request's own URL
OwnPath(name) ==
  IF name = "binding"
  THEN <<"/","a","p","i","/","v","1","/","g","a","m","e","/","p","l","a","y","e","r","/","b","i","n","d","i","n","g">>
  ELSE <<"/","w","e","b","/","v","1","/","g","a","m","e","/","e","n","d","f","i","e","l","d","/","a","t","t","e","n","d","a","n","c","e">>

\* every signed request carries the signature of its own path, an empty body
\* and its own timestamp, and the latest request carries the time of its call
SignedAtCallTime ==
  /\ \A i \in SignedRequests :
       requests[i].sign =
         Md5Hex(HmacSha256Hex(sign_token.str,
                              OwnPath(requests[i].name) \o <<>> \o requests[i].timestamp
                                \o HeadersJson(requests[i].timestamp)))
  /\ (requests # <<>> /\ LastRequest.name \in {"refresh", "binding", "check", "claim"})
       => LastRequest.timestamp = IntToStr(now)

\* C16 as stated: no two signed calls carry the same signature value.
C16_Original ==
  /\ SignedAtCallTime
  /\ \A i, j \in SignedRequests : i # j => requests[i].sign # requests[j].sign

\* C16, amended: the signature is computed at call time from the request's own
\* path, an empty body and the second the call reads; two signed calls carry
\* the same signature exactly when they share the path and the second.
C16_FreshPerCall ==
  /\ SignedAtCallTime
  /\ \A i, j \in SignedRequests :
       (requests[i].sign = requests[j].sign)
         <=> /\ OwnPath(requests[i].name) = OwnPath(requests[j].name)
             /\ requests[i].timestamp = requests[j].timestamp

\* C16's case: the claim went out a second after the check, under another signature
C16_Witness ==
  /\ Sent("check")
  /\ Sent("claim")
  /\ \E i, j \in SignedRequests :
       /\ requests[i].name = "check"
       /\ requests[j].name = "claim"
       /\ requests[i].timestamp = <<"0">>
       /\ requests[j].timestamp = <<"1">>
       /\ requests[i].sign # requests[j].sign

\* the arguments in which the two calls of _compute_sign differ
SignDiffers == {f \in {"path", "body", "timestamp", "key"} : signing.args[1][f] # signing.args[2][f]}

\* both calls of _compute_sign have returned
BothSigned == signing # Absent /\ signing.out[1] # Absent /\ signing.out[2] # Absent

\* C17: _compute_sign returns a signature for every path, body, timestamp and
\* sign token; two calls with the same four arguments return the same
\* signature, and two calls that differ in exactly one of the four return
\* different signatures.
C17_SignIsFunctionOfInputs ==
  /\ signing # Absent =>
       \A i \in 1..2 : signing.out[i] # Absent => DOMAIN signing.out[i] = {"value"}
  /\ BothSigned =>
       /\ SignDiffers = {} => signing.out[1] = signing.out[2]
       /\ Cardinality(SignDiffers) = 1 => signing.out[1] # signing.out[2]

\* C17's case: two calls that differ in the body only, under two signatures
C17_Witness ==
  /\ BothSigned
  /\ SignDiffers = {"body"}
  /\ signing.out[1] # signing.out[2]

\* the six requests in the order of the chain
Chain == <<"oauth_grant", "generate_cred", "refresh", "binding", "check", "claim">>

\* the names of the requests issued so far, in the order of their issue
IssuedNames == [i \in DOMAIN requests |-> requests[i].name]

IsPrefixOf(s, t) == Len(s) <= Len(t) /\ s = SubSeq(t, 1, Len(s))

\* the requests issued so far are the first steps of the chain, taken in its
\* order, from the OAuth grant or from the token refresh
IssuedInChainOrder ==
  \/ IsPrefixOf(IssuedNames, Chain)
  \/ IsPrefixOf(IssuedNames, SubSeq(Chain, 3, 6))

\* up to the binding lookup, each request went out after the step before it
\* had given its value
IssuedAfterCredentialSteps ==
  /\ Sent("generate_cred") => Sent("oauth_grant") /\ Truthy(locals.oauth_code)
  /\ Sent("refresh") =>
       /\ Truthy(cred)
       /\ Sent("oauth_grant") => Sent("generate_cred") /\ Truthy(locals.cred) /\ cred = locals.cred
  /\ Sent("binding") => Sent("refresh") /\ Truthy(locals.sign_token) /\ sign_token = locals.sign_token

\* the claim went out after a check that answered code 0 without hasToday
ClaimIssuedAfterCheck ==
  Sent("claim") =>
    /\ Sent("check")
    /\ check_data.code = PyInt(0)
    /\ check_data.data # PyNone
    /\ (check_data.data = Absent
          \/ ~Truthy(Get(check_data.data.dict.hasToday, PyBool(FALSE))))

\* a failed OAuth grant or code exchange: cred is as the constructor left it,
\* not set, and the failed request is the last of the invocation
FailedGrantEndsChain ==
  /\ (Sent("oauth_grant") /\ ~Truthy(locals.oauth_code) /\ pc # "oauth") =>
       /\ Len(requests) = 1
       /\ pc = "done"
       /\ ~Truthy(cred) /\ cred = ConstructedCred(account_token)
       /\ auth_ret = PyBool(FALSE)
  /\ (Sent("generate_cred") /\ ~Truthy(locals.cred)) =>
       /\ Len(requests) = 2
       /\ pc = "done"
       /\ ~Truthy(cred) /\ cred = ConstructedCred(account_token)
       /\ auth_ret = PyBool(FALSE)

\* C18 as stated: the requests go out in the order of the chain, each only
\* after the step before it succeeded, the attendance check only after the
\* binding lookup gave a role; a failed OAuth grant or code exchange leaves
\* cred unset and ends the chain.
C18_Original ==
  /\ IssuedInChainOrder
  /\ IssuedAfterCredentialSteps
  /\ Sent("check") => Sent("binding") /\ Truthy(locals.game_role)
  /\ ClaimIssuedAfterCheck
  /\ FailedGrantEndsChain

\* C18, amended: the requests go out in the order of the chain; the code
\* exchange, the refresh and the binding lookup each only after the step before
\* gave its value, the attendance check after the binding lookup whatever that
\* gave, the claim only after a check that answered code 0 without hasToday; a
\* failed OAuth grant or code exchange leaves cred unset and ends the chain.
C18_OrderedChain ==
  /\ IssuedInChainOrder
  /\ IssuedAfterCredentialSteps
  /\ Sent("check") => Sent("binding") /\ auth_ret = PyBool(TRUE) /\ Truthy(sign_token)
  /\ ClaimIssuedAfterCheck
  /\ FailedGrantEndsChain

\* C18's case: all six requests went out, though the binding lookup gave no role
C18_Witness ==
  /\ IssuedNames = Chain
  /\ ~Truthy(locals.game_role)
  /\ pc = "done"

\* a call of Game.sign is under way: its adapter has begun perform_checkin and
\* process_all_accounts has not yet moved on to the next account
InSignCall == pc \notin {"loop", "returned", "ready", "sign"}

\* the token of the account the loop is at
OwnToken == self_data[index].cookie

\* the values the upstream handed to the call under way, and to no other
OwnCode == PyStr(<<"o","c">> \o IntToStr(calls))
OwnUpstreamCred == PyStr(<<"c","r">> \o IntToStr(calls))
OwnSignToken == <<"s","t">> \o IntToStr(calls)
OwnRole == PyStr(<<"3","_","r">> \o IntToStr(calls) \o <<"_","s","1">>)

\* the cred of the call under way: the token itself when it is a cred value,
\* else what the code exchange of this call returned
OwnCred == IF IsShortForm(OwnToken) THEN PyStr(OwnToken) ELSE OwnUpstreamCred

\* the request carries nothing but what its own call derived from its own token
CarriesOwnValues(r) ==
  /\ r.name = "oauth_grant" => r.token = OwnToken
  /\ r.name = "generate_cred" => r.code = OwnCode
  /\ r.name \in {"refresh", "binding", "check", "claim"} => r.cred = OwnCred
  /\ IsSigned(r.name) => r.sign.md5.hmac_sha256_key = OwnSignToken
  /\ r.name \in {"check", "claim"} => r.role \in {Absent, OwnRole}

C20_EveryInvocationRederives ==
  /\ pc = "ready" =>
       /\ cred = (IF IsShortForm(account_token) THEN PyStr(account_token) ELSE PyNone)
       /\ sign_token = PyNone
       /\ game_role = PyNone
  /\ (~IsShortForm(account_token) /\ requests # <<>>) =>
       /\ requests[1].name = "oauth_grant"
       /\ Sent("refresh") => Sent("generate_cred")

\* both runs are over
BothRunsOver == replay # Absent /\ replay.first # Absent /\ pc = "done"

\* request i of the second run was issued in the same second as request i of
\* the first, or carries no timestamp
SameSecond(i) ==
  "timestamp" \in DOMAIN requests[i] => requests[i].timestamp = replay.first.requests[i].timestamp

\* C21: two runs with the same token and the same upstream responses under
\* different account labels return the same outcome and issue the same
\* requests, one for one, apart from the second a request is issued in.
C21_LabelHasNoInfluence ==
  BothRunsOver =>
    /\ account_name # replay.first.account_name
    /\ outcome = replay.first.outcome
    /\ Len(requests) = Len(replay.first.requests)
    /\ \A i \in DOMAIN requests :
         /\ requests[i].name = replay.first.requests[i].name
         /\ SameSecond(i) => requests[i] = replay.first.requests[i]

\* C21's case: under its second label the long token went through all six
\* requests and was signed in, as under the first
C21_Witness ==
  /\ BothRunsOver
  /\ account_name # replay.first.account_name
  /\ IssuedNames = Chain
  /\ requests = replay.first.requests
  /\ outcome.success
  /\ outcome = replay.first.outcome

\* the reward C22 names: that of the last calendar entry marked done, when its
\* awardId is in the check response's resourceInfoMap, and None otherwise
RewardOfLastDone(payload) ==
  LET calendar == IF payload.data.dict.calendar \in {Absent, PyNone} THEN <<>>
                  ELSE payload.data.dict.calendar.list
      map == payload.data.dict.resourceInfoMap
      done == {i \in DOMAIN calendar : calendar[i].done = PyBool(TRUE)}
      last == CHOOSE i \in done : \A j \in done : j <= i
  IN IF done = {} THEN PyNone
     ELSE IF calendar[last].awardId = Absent \/ map \in {Absent, PyNone} THEN PyNone
     ELSE IF map.dict[calendar[last].awardId.str] \in {Absent, PyNone} THEN PyNone
     ELSE RewardOf(map.dict[calendar[last].awardId.str])

\* C22: when the check says hasToday and perform_checkin returns the already
\* signed outcome, its reward is that of the last done calendar entry if that
\* entry's awardId is in the resourceInfoMap, and None if it is not: never the
\* reward of an earlier done entry.
C22_RewardOfMostRecentDone ==
  (CheckSaysClaimedToday /\ pc = "done" /\ outcome.already_signed = TRUE)
    => outcome.reward = RewardOfLastDone(check_data)

\* the role a binding carries: its defaultRole when it has one, else the first
\* entry of its roles list (None: the binding carries no role)
BoundRole(binding) ==
  IF binding.dict.defaultRole \notin {Absent, PyNone} /\ Truthy(binding.dict.defaultRole)
  THEN binding.dict.defaultRole
  ELSE IF binding.dict.roles \in {Absent, PyNone} THEN PyNone
  ELSE IF binding.dict.roles.list = <<>> THEN PyNone
  ELSE IF Truthy(binding.dict.roles.list[1]) THEN binding.dict.roles.list[1]
  ELSE PyNone

\* the apps the binding response lists (none when it is an error, has another
\* code than 0 or no list)
AppsListed(resp) ==
  IF IsError(resp) THEN <<>>
  ELSE IF Get(resp.json.code, PyNone) # PyInt(0) \/ resp.json.data \in {Absent, PyNone} THEN <<>>
  ELSE IF resp.json.data.dict.list \in {Absent, PyNone} THEN <<>>
  ELSE resp.json.data.dict.list.list

\* where the response has a bound role for the game: <<app, binding>>
BoundAt(resp) ==
  LET apps == AppsListed(resp) IN
    {p \in (DOMAIN apps) \X (1..2) :
       /\ apps[p[1]].dict.appCode = PyStr(<<"e","n","d","f","i","e","l","d">>)
       /\ apps[p[1]].dict.bindingList \notin {Absent, PyNone}
       /\ p[2] \in DOMAIN apps[p[1]].dict.bindingList.list
       /\ BoundRole(apps[p[1]].dict.bindingList.list[p[2]]) # PyNone}

\* the game role C23 names: that of the first bound role among the bindings
\* returned for the game, None when there is none
FirstBoundRole(resp) ==
  LET at == BoundAt(resp)
      first == CHOOSE p \in at : \A q \in at : p[1] < q[1] \/ (p[1] = q[1] /\ p[2] <= q[2])
      role == BoundRole(AppsListed(resp)[first[1]].dict.bindingList.list[first[2]])
  IN IF at = {} THEN PyNone
     ELSE PyStr(<<"3","_">> \o Fmt(Get(role.dict.roleId, PyNone)) \o <<"_">>
                  \o Fmt(Get(role.dict.serverId, PyNone)))

\* C23: what _get_player_binding returns is "3_{roleId}_{serverId}" of the first
\* bound role among the bindings the response has for the game (the binding's
\* defaultRole, else the first of its roles), and no role in every other case.
C23_FirstBoundRole ==
  (pc = "bound" /\ hop_data # Absent) => locals.game_role = FirstBoundRole(hop_data)

\* the place of a step in perform_checkin, in the order of the code
StepRank(p) ==
  CASE p = "ready" -> 0
    [] p = "oauth" -> 1
    [] p = "cred" -> 2
    [] p = "refresh" -> 3
    [] p = "binding" -> 4
    [] p = "bound" -> 5
    [] p = "check" -> 6
    [] p = "claim" -> 7
    [] p = "done" -> 8

\* C24: a perform_checkin that was called returns an outcome in the end, and
\* every step of it leads to a later step of the code, never back.
C24_AlwaysEnds ==
  /\ (calls = 1) ~> (pc = "done" /\ outcome # Absent)
  /\ [][StepRank(pc') > StepRank(pc)]_pc

\* C24's case: the invocation ended at the step that failed, the code exchange
C24_Witness ==
  /\ pc = "done"
  /\ outcome # Absent
  /\ requests # <<>>
  /\ LastRequest.name = "generate_cred"

\* the claim was answered with a code that is none of 0, 1001, 10001, 10002 and
\* a message without "already"
ClaimSaysOtherError ==
  /\ claim_data # Absent
  /\ Get(claim_data.code, PyNone) \notin {PyInt(0), PyInt(1001), PyInt(10001), PyInt(10002)}
  /\ ~MessageHasAlready(claim_data)

\* C25: in every outcome perform_checkin returns, already_signed implies
\* success, a reward implies success, a failure carries a total_sign_day above
\* 0 only when the claim was answered with an other error, and total_sign_day
\* lies between 0 and the number of done calendar entries plus one.
C25_OutcomeInvariants ==
  pc = "done" =>
    /\ outcome.already_signed => outcome.success
    /\ outcome.reward # PyNone => outcome.success
    /\ (~outcome.success /\ outcome.total_sign_day > 0) => ClaimSaysOtherError
    /\ outcome.total_sign_day >= 0
    /\ outcome.total_sign_day <= (IF check_data = Absent THEN 0 ELSE DoneEntries(check_data)) + 1

\* C25's case: the claim was answered with an other error after a check with
\* done entries, and the failure carries their number
C25_Witness ==
  /\ pc = "done"
  /\ ClaimSaysOtherError
  /\ ~outcome.success
  /\ outcome.total_sign_day = 2
  /\ DoneEntries(check_data) = 2

\* the outcome of lines 485-491 for the baseline of the check
IsAlreadyOutcomeAtBaseline ==
  /\ outcome.success
  /\ outcome.already_signed
  /\ outcome.reward = PyNone
  /\ outcome.total_sign_day = total_signed.int

Notifiable == {i \in DOMAIN results : results[i].success = TRUE \/ results[i].already_signed = TRUE}

\* s lists the notifiable results, each once, in the order of the accounts
IsNotifiableList(s) ==
  /\ Len(s) = Cardinality(Notifiable)
  /\ \E f \in [DOMAIN s -> Notifiable] :
       /\ \A k, l \in DOMAIN s : k < l => f[k] < f[l]
       /\ \A k \in DOMAIN s : s[k] = results[f[k]]

====
